---- MODULE Spec2Model ----
(***************************************************************************)
(* A model of the zero-copy parser-combinator runtime of chumsky:          *)
(* src/src/zero_copy/primitive.rs and src/src/zero_copy/combinator.rs.     *)
(*                                                                         *)
(* A parser is a tree of records ([op |-> "or", a |-> .., b |-> ..]); the  *)
(* operator Go(p, M, c) is Parser::go::<M>(&self, inp): it runs parser p   *)
(* in mode M ("Emit" or "Check") on the cursor c and returns the result    *)
(* together with the cursor as the call left it.  The cursor (InputRef),   *)
(* the located error, the error value and the mode selector live outside   *)
(* the files modelled here and are written down from their specification.  *)
(***************************************************************************)
EXTENDS Integers, Sequences, FiniteSets

VARIABLES
    input,      \* the token sequence handed to the driver
    parser,     \* the parser that was built
    cur,        \* the cursor: [pos, errors, state, ctx]
    entry,      \* the cursor as it was when the parser was invoked
    mode,       \* mode of the invocation: "none" before it, then "Emit" or "Check"
    res,        \* result of the invocation: [ok, out, c] or [ok, err, c]
    cells,      \* the cells of the Recursive handles: [content, strong, borrows]
    handles,    \* the Recursive handles made so far: [kind, cell, live]
    stack,      \* the handles whose parse_inner is running, innermost last
    call        \* the last call on a handle and how it ended

pvars == <<input, parser, cur, entry, mode, res>>

rvars == <<cells, handles, stack, call>>

vars == <<input, parser, cur, entry, mode, res, cells, handles, stack, call>>

---------------------------------------------------------------------------
(* Bounds of the model *)

MaxLen == 3         \* longest input of the general scenarios
MaxSepLen == 6      \* longest input of the separated_by scenarios
MaxState == 1       \* largest initial user state
MaxAtLeast == 3     \* largest at_least given to separated_by
MaxAtMost == 3      \* largest at_most given to separated_by
MaxCount == 3       \* largest at_least, at_most or N given to a repetition
MaxCells == 2       \* most cells declared
MaxHandles == 3     \* most Recursive handles made
MaxDepth == 2       \* deepest nesting of parse_inner calls
MaxCtx == 2         \* largest context the driver starts with
MaxCtxLen == 4      \* longest input of the context scenarios

StateMod == MaxState + 2    \* user states are counted modulo this

---------------------------------------------------------------------------
(* Error values, located errors *)

NoTok == "<none>"

ExpectedFound(expected, found, span) ==
    [expected |-> expected, found |-> found, span |-> span, label |-> "expected_found"]

Custom(label, span) ==
    [expected |-> {}, found |-> NoTok, span |-> span, label |-> label]

Merge(a, b) == [a EXCEPT !.expected = a.expected \cup b.expected]

LocatedAt(pos, err) == [pos |-> pos, err |-> err]

Prioritize(a, b) ==
    IF a.pos = b.pos THEN LocatedAt(a.pos, Merge(a.err, b.err))
    ELSE IF a.pos > b.pos THEN a
    ELSE b

---------------------------------------------------------------------------
(* The cursor (InputRef) *)

Cursor(pos, state) == [pos |-> pos, errors |-> <<>>, state |-> state, ctx |-> 0]

\* the cursor of a parse started with the context ctx
CursorIn(pos, state, ctx) == [Cursor(pos, state) EXCEPT !.ctx = ctx]

\* InputRef::with_ctx: the result of a thunk run under another context,
\* with the context the cursor had before put back
RestoreCtx(r, ctx) == [r EXCEPT !.c.ctx = ctx]

Save(c) == c.pos

RewindTo(c, pos) == [c EXCEPT !.pos = pos]

NextTok(c) ==
    IF c.pos < Len(input)
    THEN [c |-> [c EXCEPT !.pos = c.pos + 1], at |-> c.pos + 1, tok |-> input[c.pos + 1]]
    ELSE [c |-> c, at |-> c.pos, tok |-> NoTok]

SpanSince(c, before) == <<before, c.pos>>

SliceOf(before, after) == SubSeq(input, before + 1, after)

EmitErr(c, e) == [c EXCEPT !.errors = Append(@, e)]

---------------------------------------------------------------------------
(* Results and outputs *)

POk(out, c) == [ok |-> TRUE, out |-> out, c |-> c]
PErr(e, c) == [ok |-> FALSE, err |-> e, c |-> c]
\* a panic: the call never returns Ok or Err
PPanic(msg, c) == [ok |-> FALSE, panic |-> msg, c |-> c]
\* an Err of a fixed-size collector, with the slots it had written and the
\* slots it dropped before returning
PErrDropping(e, c, written, dropped) ==
    [ok |-> FALSE, err |-> e, c |-> c, written |-> written, dropped |-> dropped]
Panicked(r) == "panic" \in DOMAIN r

Chk == [chk |-> TRUE]
Unit == [unit |-> TRUE]
TokOut(t) == [tok |-> t]
JustOut(seq) == [just |-> seq]
PairOut(a, b) == [fst |-> a, snd |-> b]
SomeOut(o) == [some |-> o]
NoneOut == [none |-> TRUE]
VecOut(items) == [vec |-> items]
SliceOut(s) == [slice |-> s]
ToOut(v) == [to |-> v]

\* Mode::bind / Mode::map / Mode::combine: Emit builds the value, Check
\* returns the marker without running the closure.
ModeOut(M, v) == IF M = "Emit" THEN v ELSE Chk

\* Container::push through Mode::combine
Push(M, output, item) == IF M = "Emit" THEN VecOut(Append(output.vec, item)) ELSE Chk

---------------------------------------------------------------------------
(* Parser constructors *)

Just(seq) == [op |-> "just", seq |-> seq]
Any == [op |-> "any"]
End == [op |-> "end"]
Empty == [op |-> "empty"]
Then(a, b) == [op |-> "then", a |-> a, b |-> b]
IgnoreThen(a, b) == [op |-> "ignore_then", a |-> a, b |-> b]
ThenIgnore(a, b) == [op |-> "then_ignore", a |-> a, b |-> b]
Filter(a, f) == [op |-> "filter", a |-> a, filter |-> f]
OrElse(a, f) == [op |-> "or_else", a |-> a, or_else |-> f]
Configure(a, f) == [op |-> "configure", a |-> a, cfg |-> f]
ThenWithCtx(a, b, f) == [op |-> "then_with_ctx", a |-> a, b |-> b, make_ctx |-> f]
WithCtx(a, ctx) == [op |-> "with_ctx", a |-> a, ctx |-> ctx]
Or(a, b) == [op |-> "or", a |-> a, b |-> b]
Choice(ps) == [op |-> "choice", parsers |-> ps]
OrNot(a) == [op |-> "or_not", a |-> a]
Rewind(a) == [op |-> "rewind", a |-> a]
Not(a) == [op |-> "not", a |-> a]
AndIs(a, b) == [op |-> "and_is", a |-> a, b |-> b]
To(a, v) == [op |-> "to", a |-> a, to |-> v]
Ignored(a) == [op |-> "ignored", a |-> a]
Slice(a) == [op |-> "slice", a |-> a]
MapWithState(a, f) == [op |-> "map_with_state", a |-> a, mapper |-> f]
TryMap(a, f) == [op |-> "try_map", a |-> a, mapper |-> f]
TryMapWithState(a, f) == [op |-> "try_map_with_state", a |-> a, mapper |-> f]
Validate(a, f) == [op |-> "validate", a |-> a, validator |-> f]
RecoverWith(a, f) == [op |-> "recover_with", a |-> a, fallback |-> f]

NoBound == -1   \* Option::None of an at_most bound

Repeated(a, atLeast, atMost) ==
    [op |-> "repeated", a |-> a, at_least |-> atLeast, at_most |-> atMost]

RepeatedExactly(a, N) == [op |-> "repeated_exactly", a |-> a, N |-> N]

SeparatedByExactly(a, sep, N, leading, trailing) ==
    [op |-> "separated_by_exactly", a |-> a, separator |-> sep, N |-> N,
     allow_leading |-> leading, allow_trailing |-> trailing]

SeparatedBy(a, sep, atLeast, atMost, leading, trailing) ==
    [op |-> "separated_by", a |-> a, separator |-> sep, at_least |-> atLeast,
     at_most |-> atMost, allow_leading |-> leading, allow_trailing |-> trailing]

TakeUntil(until) == [op |-> "take_until", until |-> until]

---------------------------------------------------------------------------
(* User closures handed to the combinators, named by a tag *)

\* F: Fn(OA, Span, &mut State) -> O of map_with_state: returns the new
\* state and the output.
StateMapper(f, out, span, state) ==
    CASE f = "bump" -> [state |-> (state + 1) % StateMod, out |-> out]
      [] f = "count" -> [state |-> (state + 1) % StateMod,
                         out |-> [st |-> (state + 1) % StateMod]]

\* F: Fn(A::Config, &Context) -> A::Config of configure, on a RepeatedCfg
ConfigFn(f, cfg, ctx) ==
    CASE f = "exactly" -> [at_least |-> ctx, at_most |-> ctx]
      [] f = "at_least" -> [cfg EXCEPT !.at_least = ctx]
      [] f = "at_most" -> [cfg EXCEPT !.at_most = ctx]
      [] f = "keep" -> cfg

\* F: Fn(OA, &Context) -> CtxN of then_with_ctx
MakeCtx(f, out, ctx) ==
    CASE f = "count" -> Len(out.vec)
      [] f = "deeper" -> ctx + 1

\* F: Fn(&O) -> bool of filter
FilterFn(f, out) ==
    CASE f = "is_a" -> out = TokOut("a")
      [] f = "none" -> FALSE

\* F: Fn(Error) -> Result<O, Error> of or_else
OrElseFn(f, err) ==
    CASE f = "default" -> [ok |-> TRUE, out |-> ToOut("default")]
      [] f = "relabel" -> [ok |-> FALSE, err |-> [err EXCEPT !.label = "relabel"]]

\* F: Fn(OA, Span) -> Result<O, Error> of try_map
TryMapper(f, out, span) ==
    CASE f = "reject" -> [ok |-> FALSE, err |-> Custom("reject", span)]
      [] f = "is_a" ->
            IF out = TokOut("a")
            THEN [ok |-> TRUE, out |-> ToOut("A")]
            ELSE [ok |-> FALSE, err |-> Custom("not a", span)]

\* F: Fn(OA, Span, &mut State) -> Result<O, Error> of try_map_with_state
TryStateMapper(f, out, span, state) ==
    CASE f = "zero" ->
            IF state = 0
            THEN [ok |-> TRUE, state |-> state, out |-> out]
            ELSE [ok |-> FALSE, state |-> state, err |-> Custom("state", span)]

\* F: Fn(OA, Span, &mut Emitter) -> U of validate: returns the output and
\* the errors pushed into the emitter.
Validator(f, out, span) ==
    CASE f = "warn" -> [out |-> out, errors |-> <<Custom("warn", span)>>]
      [] f = "pass" -> [out |-> out, errors |-> <<>>]

---------------------------------------------------------------------------
(* Parser::go for the primitives and the combinators *)

RECURSIVE Go(_, _, _)
RECURSIVE JustLoop(_, _, _, _)
RECURSIVE ChoiceLoopNoRewind(_, _, _, _, _, _)
RECURSIVE ChoiceLoop(_, _, _, _, _, _)
RECURSIVE RepeatedLoopNoRewind(_, _, _, _, _, _, _)
RECURSIVE RepeatedLoop(_, _, _, _, _, _, _)
RECURSIVE RepeatedExactlyLoop(_, _, _, _, _)
RECURSIVE SeparatedByLoop(_, _, _, _, _)
RECURSIVE SeparatedByExactlyLoop(_, _, _, _, _)
RECURSIVE TakeUntilLoop(_, _, _, _)
RECURSIVE EmitAll(_, _)

EndGo(p, M, c) ==
    LET before == Save(c)
        n == NextTok(c)
    IN  IF n.tok = NoTok
        THEN POk(ModeOut(M, Unit), n.c)
        ELSE PErr(LocatedAt(n.at, ExpectedFound({}, n.tok, SpanSince(n.c, before))), n.c)

EmptyGo(p, M, c) == POk(ModeOut(M, Unit), c)

\* the loop of Just::go_cfg over seq.seq_iter(), i = items already matched
JustLoop(seq, i, M, c) ==
    IF i = Len(seq)
    THEN POk(ModeOut(M, JustOut(seq)), c)
    ELSE LET next == seq[i + 1]
             before == Save(c)
             n == NextTok(c)
         IN  IF n.tok # NoTok /\ next = n.tok
             THEN JustLoop(seq, i + 1, M, n.c)
             ELSE PErr(LocatedAt(n.at, ExpectedFound({next}, n.tok, SpanSince(n.c, before))), n.c)

JustGo(p, M, c) == JustLoop(p.seq, 0, M, c)

AnyGo(p, M, c) ==
    LET before == Save(c)
        n == NextTok(c)
    IN  IF n.tok # NoTok
        THEN POk(ModeOut(M, TokOut(n.tok)), n.c)
        ELSE PErr(LocatedAt(n.at, ExpectedFound({}, n.tok, SpanSince(n.c, before))), n.c)

ThenGo(p, M, c) ==
    LET ra == Go(p.a, M, c)
    IN  IF ~ra.ok THEN ra
        ELSE LET rb == Go(p.b, M, ra.c)
             IN  IF ~rb.ok THEN rb
                 ELSE POk(ModeOut(M, PairOut(ra.out, rb.out)), rb.c)

IgnoreThenGo(p, M, c) ==
    LET ra == Go(p.a, "Check", c)
    IN  IF ~ra.ok THEN ra ELSE Go(p.b, M, ra.c)

ThenIgnoreGo(p, M, c) ==
    LET ra == Go(p.a, M, c)
    IN  IF ~ra.ok THEN ra
        ELSE LET rb == Go(p.b, "Check", ra.c)
             IN  IF ~rb.ok THEN rb ELSE POk(ra.out, rb.c)

FilterGo(p, M, c) ==
    LET before == Save(c)
        r == Go(p.a, "Emit", c)
    IN  IF ~r.ok THEN r
        ELSE IF FilterFn(p.filter, r.out) THEN POk(ModeOut(M, r.out), r.c)
        ELSE PErr(LocatedAt(Save(r.c), ExpectedFound({}, NoTok, SpanSince(r.c, before))), r.c)

OrElseGo(p, M, c) ==
    LET r == Go(p.a, M, c)
    IN  IF r.ok THEN r
        ELSE LET e == OrElseFn(p.or_else, r.err.err)
             IN  IF e.ok THEN POk(ModeOut(M, e.out), r.c)
                 ELSE PErr([pos |-> r.err.pos, err |-> e.err], r.c)

\* Or::go without the rewind between the two attempts
OrGoNoRewind(p, M, c) ==
    LET ra == Go(p.a, M, c)
    IN  IF ra.ok THEN ra
        ELSE LET rb == Go(p.b, M, ra.c)
             IN  IF rb.ok THEN rb
                 ELSE PErr(Prioritize(ra.err, rb.err), rb.c)

\* Or::go merging the two errors whatever their positions
OrGoAlwaysMerge(p, M, c) ==
    LET before == Save(c)
        ra == Go(p.a, M, c)
    IN  IF ra.ok THEN ra
        ELSE LET rb == Go(p.b, M, RewindTo(ra.c, before))
             IN  IF rb.ok THEN rb
                 ELSE PErr(LocatedAt(rb.err.pos, Merge(ra.err.err, rb.err.err)), rb.c)

OrGo(p, M, c) ==
    LET before == Save(c)
        ra == Go(p.a, M, c)
    IN  IF ra.ok THEN ra
        ELSE LET rb == Go(p.b, M, RewindTo(ra.c, before))
             IN  IF rb.ok THEN rb
                 ELSE PErr(Prioritize(ra.err, rb.err), rb.c)

\* Choice::go keeping only the error of the last branch
ChoiceLoopKeepLast(ps, i, M, c, before, err) ==
    IF i = Len(ps)
    THEN PErr(IF err # <<>> THEN err[1]
              ELSE LocatedAt(Save(c), ExpectedFound({}, NoTok, SpanSince(c, before))), c)
    ELSE LET r == Go(ps[i + 1], M, c)
         IN  IF r.ok THEN r
             ELSE ChoiceLoop(ps, i + 1, M, RewindTo(r.c, before), before, <<r.err>>)

\* Choice::go without the rewind after a failed branch
ChoiceLoopNoRewind(ps, i, M, c, before, err) ==
    IF i = Len(ps)
    THEN PErr(IF err # <<>> THEN err[1]
              ELSE LocatedAt(Save(c), ExpectedFound({}, NoTok, SpanSince(c, before))), c)
    ELSE LET r == Go(ps[i + 1], M, c)
         IN  IF r.ok THEN r
             ELSE ChoiceLoopNoRewind(ps, i + 1, M, r.c, before,
                                     <<IF err # <<>> THEN Prioritize(err[1], r.err)
                                       ELSE r.err>>)

\* the macro-expanded sequence of branches of Choice::go; i = branches
\* already tried, err = the Option<Located> accumulated so far
ChoiceLoop(ps, i, M, c, before, err) ==
    IF i = Len(ps)
    THEN PErr(IF err # <<>> THEN err[1]
              ELSE LocatedAt(Save(c), ExpectedFound({}, NoTok, SpanSince(c, before))), c)
    ELSE LET r == Go(ps[i + 1], M, c)
         IN  IF r.ok THEN r
             ELSE ChoiceLoop(ps, i + 1, M, RewindTo(r.c, before), before,
                             <<IF err # <<>> THEN Prioritize(err[1], r.err) ELSE r.err>>)

ChoiceGo(p, M, c) == ChoiceLoop(p.parsers, 0, M, c, Save(c), <<>>)

\* OrNot::go without the rewind after the failed attempt
OrNotGoNoRewind(p, M, c) ==
    LET r == Go(p.a, M, c)
    IN  IF r.ok THEN POk(ModeOut(M, SomeOut(r.out)), r.c)
        ELSE POk(ModeOut(M, NoneOut), r.c)

OrNotGo(p, M, c) ==
    LET before == Save(c)
        r == Go(p.a, M, c)
    IN  IF r.ok THEN POk(ModeOut(M, SomeOut(r.out)), r.c)
        ELSE POk(ModeOut(M, NoneOut), RewindTo(r.c, before))

NotGo(p, M, c) ==
    LET before == Save(c)
        result == Go(p.a, "Check", c)
        back == RewindTo(result.c, before)
    IN  IF result.ok
        THEN LET n == NextTok(back)
             IN  PErr(LocatedAt(n.at, ExpectedFound({}, n.tok, SpanSince(n.c, before))), n.c)
        ELSE POk(ModeOut(M, Unit), back)

\* AndIs::go leaving the cursor where b ended
AndIsGoEndOfB(p, M, c) ==
    LET before == Save(c)
        ra == Go(p.a, M, c)
    IN  IF ra.ok
        THEN LET rb == Go(p.b, "Check", RewindTo(ra.c, before))
             IN  IF rb.ok
                 THEN POk(ra.out, rb.c)
                 ELSE PErr(rb.err, RewindTo(rb.c, before))
        ELSE PErr(ra.err, RewindTo(ra.c, before))

AndIsGo(p, M, c) ==
    LET before == Save(c)
        ra == Go(p.a, M, c)
    IN  IF ra.ok
        THEN LET after == Save(ra.c)
                 rb == Go(p.b, "Check", RewindTo(ra.c, before))
             IN  IF rb.ok
                 THEN POk(ra.out, RewindTo(rb.c, after))
                 ELSE PErr(rb.err, RewindTo(rb.c, before))
        ELSE PErr(ra.err, RewindTo(ra.c, before))

\* Rewind::go that forgets to restore the cursor
RewindGoNoRestore(p, M, c) == Go(p.a, M, c)

\* Rewind::go rewinding to the start of the input
RewindGoToStart(p, M, c) ==
    LET r == Go(p.a, M, c)
    IN  IF r.ok THEN POk(r.out, RewindTo(r.c, 0)) ELSE r

RewindGo(p, M, c) ==
    LET before == Save(c)
        r == Go(p.a, M, c)
    IN  IF r.ok THEN POk(r.out, RewindTo(r.c, before))
        ELSE r

ToGo(p, M, c) ==
    LET r == Go(p.a, "Check", c)
    IN  IF r.ok THEN POk(ModeOut(M, ToOut(p.to)), r.c) ELSE r

IgnoredGo(p, M, c) ==
    LET r == Go(p.a, "Check", c)
    IN  IF r.ok THEN POk(ModeOut(M, Unit), r.c) ELSE r

SliceGo(p, M, c) ==
    LET before == Save(c)
        r == Go(p.a, "Check", c)
    IN  IF r.ok THEN POk(ModeOut(M, SliceOut(SliceOf(before, Save(r.c)))), r.c) ELSE r

MapWithStateGo(p, M, c) ==
    LET before == Save(c)
        r == Go(p.a, "Emit", c)
    IN  IF ~r.ok THEN r
        ELSE IF M = "Emit"
             THEN LET m == StateMapper(p.mapper, r.out, SpanSince(r.c, before), r.c.state)
                  IN  POk(m.out, [r.c EXCEPT !.state = m.state])
             ELSE POk(Chk, r.c)

TryMapGo(p, M, c) ==
    LET before == Save(c)
        r == Go(p.a, "Emit", c)
    IN  IF ~r.ok THEN r
        ELSE LET m == TryMapper(p.mapper, r.out, SpanSince(r.c, before))
             IN  IF m.ok THEN POk(ModeOut(M, m.out), r.c)
                 ELSE PErr(LocatedAt(Save(r.c), m.err), r.c)

TryMapWithStateGo(p, M, c) ==
    LET before == Save(c)
        r == Go(p.a, "Emit", c)
    IN  IF ~r.ok THEN r
        ELSE LET m == TryStateMapper(p.mapper, r.out, SpanSince(r.c, before), r.c.state)
                 c2 == [r.c EXCEPT !.state = m.state]
             IN  IF m.ok THEN POk(ModeOut(M, m.out), c2)
                 ELSE PErr(LocatedAt(Save(c2), m.err), c2)

EmitAll(c, errs) ==
    IF errs = <<>> THEN c ELSE EmitAll(EmitErr(c, Head(errs)), Tail(errs))

ValidateGo(p, M, c) ==
    LET before == Save(c)
        r == Go(p.a, "Emit", c)
    IN  IF ~r.ok THEN r
        ELSE LET v == Validator(p.validator, r.out, SpanSince(r.c, before))
             IN  POk(ModeOut(M, v.out), EmitAll(r.c, v.errors))

\* RecoverWith::go without the emit of the first parser's error
RecoverWithGoNoEmit(p, M, c) ==
    LET before == Save(c)
        r == Go(p.a, M, c)
    IN  IF r.ok THEN r
        ELSE LET rf == Go(p.fallback, M, RewindTo(r.c, before))
             IN  IF rf.ok THEN POk(rf.out, rf.c)
                 ELSE PErr(r.err, rf.c)

\* RecoverWith::go returning the fallback's error when both parsers fail
RecoverWithGoFallbackError(p, M, c) ==
    LET before == Save(c)
        r == Go(p.a, M, c)
    IN  IF r.ok THEN r
        ELSE LET rf == Go(p.fallback, M, RewindTo(r.c, before))
             IN  IF rf.ok THEN POk(rf.out, EmitErr(rf.c, r.err.err))
                 ELSE rf

\* RecoverWith::go emitting the first parser's error before the fallback runs
RecoverWithGoEmitFirst(p, M, c) ==
    LET before == Save(c)
        r == Go(p.a, M, c)
    IN  IF r.ok THEN r
        ELSE LET rf == Go(p.fallback, M, EmitErr(RewindTo(r.c, before), r.err.err))
             IN  IF rf.ok THEN POk(rf.out, rf.c)
                 ELSE PErr(r.err, RewindTo(rf.c, before))

RecoverWithGo(p, M, c) ==
    LET before == Save(c)
        r == Go(p.a, M, c)
    IN  IF r.ok THEN r
        ELSE LET rf == Go(p.fallback, M, RewindTo(r.c, before))
             IN  IF rf.ok THEN POk(rf.out, EmitErr(rf.c, r.err.err))
                 ELSE PErr(r.err, rf.c)

\* RepeatedCfg::default(): neither bound set
DefaultRepeatedCfg == [at_least |-> NoBound, at_most |-> NoBound]

\* the loop of Repeated::go_cfg without the rewind of the failed attempt
RepeatedLoopNoRewind(p, M, c, count, output, at_least, at_most) ==
    LET r == Go(p.a, M, c)
    IN  IF r.ok
        THEN IF at_most # NoBound /\ count + 1 >= at_most
             THEN POk(Push(M, output, r.out), r.c)
             ELSE RepeatedLoopNoRewind(p, M, r.c, count + 1, Push(M, output, r.out),
                                       at_least, at_most)
        ELSE IF count >= at_least
             THEN POk(output, r.c)
             ELSE PErr(r.err, r.c)

\* the loop of Repeated::go_cfg
RepeatedLoop(p, M, c, count, output, at_least, at_most) ==
    LET before == Save(c)
        r == Go(p.a, M, c)
    IN  IF r.ok
        THEN IF at_most # NoBound /\ count + 1 >= at_most
             THEN POk(Push(M, output, r.out), r.c)
             ELSE RepeatedLoop(p, M, r.c, count + 1, Push(M, output, r.out), at_least, at_most)
        ELSE IF count >= at_least
             THEN POk(output, RewindTo(r.c, before))
             ELSE PErr(r.err, RewindTo(r.c, before))

RepeatedGoCfg(p, M, c, cfg) ==
    LET at_least == IF cfg.at_least # NoBound THEN cfg.at_least ELSE p.at_least
        at_most == IF cfg.at_most # NoBound THEN cfg.at_most ELSE p.at_most
    IN  RepeatedLoop(p, M, c, 0, ModeOut(M, VecOut(<<>>)), at_least, at_most)

RepeatedGo(p, M, c) == RepeatedGoCfg(p, M, c, DefaultRepeatedCfg)

\* ContainerExactly::write(&mut output, i, out) on a container of N slots:
\* slot i is filled; there is no slot i when i >= N
WriteAt(output, N, i, out) == Append(output, out)

\* the loop of RepeatedExactly::go: i items written so far
RepeatedExactlyLoop(p, M, c, i, output) ==
    LET before == Save(c)
        r == Go(p.a, M, c)
    IN  IF r.ok
        THEN IF M = "Emit" /\ i >= p.N
             THEN PPanic("index out of bounds", r.c)
             ELSE LET written == IF M = "Emit" THEN WriteAt(output, p.N, i, r.out)
                                 ELSE output
                  IN  IF i + 1 = p.N
                      THEN POk(ModeOut(M, VecOut(written)), r.c)
                      ELSE RepeatedExactlyLoop(p, M, r.c, i + 1, written)
        ELSE PErrDropping(r.err, RewindTo(r.c, before), Len(output),
                          IF M = "Emit" THEN i ELSE 0)

RepeatedExactlyGo(p, M, c) == RepeatedExactlyLoop(p, M, c, 0, <<>>)

\* Configure::go over a Repeated
ConfigureGo(p, M, c) ==
    LET cfg == ConfigFn(p.cfg, DefaultRepeatedCfg, c.ctx)
    IN  RepeatedGoCfg(p.a, M, c, cfg)

\* ThenWithCtx::go that leaves the new context on the cursor
ThenWithCtxGoNoRestore(p, M, c) ==
    LET p1 == Go(p.a, "Emit", c)
    IN  IF ~p1.ok THEN p1
        ELSE LET ctx == MakeCtx(p.make_ctx, p1.out, p1.c.ctx)
             IN  Go(p.b, M, [p1.c EXCEPT !.ctx = ctx])

ThenWithCtxGo(p, M, c) ==
    LET p1 == Go(p.a, "Emit", c)
    IN  IF ~p1.ok THEN p1
        ELSE LET ctx == MakeCtx(p.make_ctx, p1.out, p1.c.ctx)
             IN  RestoreCtx(Go(p.b, M, [p1.c EXCEPT !.ctx = ctx]), p1.c.ctx)

\* with_ctx(p, ctx): p run under a fixed context
WithCtxGo(p, M, c) == RestoreCtx(Go(p.a, M, [c EXCEPT !.ctx = p.ctx]), c.ctx)

\* an optional separator: steps 1 and 6 of SeparatedBy::go
OptSeparator(p, allowed, c) ==
    IF allowed
    THEN LET before_separator == Save(c)
             rs == Go(p.separator, "Check", c)
         IN  IF rs.ok THEN rs.c ELSE RewindTo(rs.c, before_separator)
    ELSE c

\* steps 6 and 7 of SeparatedBy::go, reached by the breaks of the loop
SeparatedByEnd(p, M, c, output) ==
    POk(output, OptSeparator(p, p.allow_trailing, c))

\* SeparatedBy::go rewinding a failed item to after the separator
SeparatedByLoopKeepsSeparator(p, M, c, count, output) ==
    LET before_separator == Save(c)
        rs == Go(p.separator, "Check", c)
    IN  IF ~rs.ok
        THEN IF count < p.at_least
             THEN PErr(rs.err, RewindTo(rs.c, before_separator))
             ELSE SeparatedByEnd(p, M, RewindTo(rs.c, before_separator), output)
        ELSE LET r == Go(p.a, M, rs.c)
             IN  IF r.ok
                 THEN IF p.at_most # NoBound /\ count + 1 >= p.at_most
                      THEN SeparatedByEnd(p, M, r.c, Push(M, output, r.out))
                      ELSE SeparatedByLoop(p, M, r.c, count + 1, Push(M, output, r.out))
                 ELSE IF count < p.at_least
                      THEN PErr(r.err, RewindTo(r.c, Save(rs.c)))
                      ELSE SeparatedByEnd(p, M, RewindTo(r.c, Save(rs.c)), output)

\* steps 3 to 5 of SeparatedBy::go
SeparatedByLoop(p, M, c, count, output) ==
    LET before_separator == Save(c)
        rs == Go(p.separator, "Check", c)
    IN  IF ~rs.ok
        THEN IF count < p.at_least
             THEN PErr(rs.err, RewindTo(rs.c, before_separator))
             ELSE SeparatedByEnd(p, M, RewindTo(rs.c, before_separator), output)
        ELSE LET r == Go(p.a, M, rs.c)
             IN  IF r.ok
                 THEN IF p.at_most # NoBound /\ count + 1 >= p.at_most
                      THEN SeparatedByEnd(p, M, r.c, Push(M, output, r.out))
                      ELSE SeparatedByLoop(p, M, r.c, count + 1, Push(M, output, r.out))
                 ELSE IF count < p.at_least
                      THEN PErr(r.err, RewindTo(r.c, before_separator))
                      ELSE SeparatedByEnd(p, M, RewindTo(r.c, before_separator), output)

\* SeparatedBy::go going on to step 6 when no item was parsed
SeparatedByGoTrailingOnEmpty(p, M, c) ==
    LET output == ModeOut(M, VecOut(<<>>))
        c1 == OptSeparator(p, p.allow_leading, c)
        before == Save(c1)
        r == Go(p.a, M, c1)
    IN  IF r.ok THEN SeparatedByLoop(p, M, r.c, 1, Push(M, output, r.out))
        ELSE IF p.at_least = 0
        THEN SeparatedByEnd(p, M, RewindTo(r.c, before), output)
        ELSE PErr(r.err, RewindTo(r.c, before))

SeparatedByGo(p, M, c) ==
    LET output == ModeOut(M, VecOut(<<>>))
        c1 == OptSeparator(p, p.allow_leading, c)
        before == Save(c1)
        r == Go(p.a, M, c1)
    IN  IF r.ok THEN SeparatedByLoop(p, M, r.c, 1, Push(M, output, r.out))
        ELSE IF p.at_least = 0 THEN POk(output, RewindTo(r.c, before))
        ELSE PErr(r.err, RewindTo(r.c, before))

\* the loop of SeparatedByExactly::go: output[i].write(out) in both modes,
\* on an array of N slots
SeparatedByExactlyLoop(p, M, c, i, output) ==
    LET before == Save(c)
        r == Go(p.a, M, c)
    IN  IF r.ok
        THEN IF i >= p.N
             THEN PPanic("index out of bounds", r.c)
             ELSE LET written == WriteAt(output, p.N, i, r.out)
                  IN  IF i + 1 = p.N
                      THEN POk(ModeOut(M, VecOut(written)),
                               OptSeparator(p, p.allow_trailing, r.c))
                      ELSE LET before_separator == Save(r.c)
                               rs == Go(p.separator, "Check", r.c)
                           IN  IF rs.ok
                               THEN SeparatedByExactlyLoop(p, M, rs.c, i + 1, written)
                               ELSE PErrDropping(rs.err, RewindTo(rs.c, before_separator),
                                                 Len(written), i + 1)
        ELSE PErrDropping(r.err, RewindTo(r.c, before), Len(output), i)

SeparatedByExactlyGo(p, M, c) ==
    SeparatedByExactlyLoop(p, M, OptSeparator(p, p.allow_leading, c), 0, <<>>)

\* the loop of TakeUntil::go without the rewind after a failed terminator
TakeUntilLoopNoRewind(p, M, c, output) ==
    LET r == Go(p.until, M, c)
    IN  IF r.ok THEN POk(ModeOut(M, PairOut(output, r.out)), r.c)
        ELSE LET n == NextTok(r.c)
             IN  IF n.tok # NoTok
                 THEN TakeUntilLoop(p, M, n.c, Push(M, output, TokOut(n.tok)))
                 ELSE PErr(r.err, n.c)

\* the loop of TakeUntil::go
TakeUntilLoop(p, M, c, output) ==
    LET start == Save(c)
        r == Go(p.until, M, c)
    IN  IF r.ok THEN POk(ModeOut(M, PairOut(output, r.out)), r.c)
        ELSE LET n == NextTok(RewindTo(r.c, start))
             IN  IF n.tok # NoTok
                 THEN TakeUntilLoop(p, M, n.c, Push(M, output, TokOut(n.tok)))
                 ELSE PErr(r.err, n.c)

TakeUntilGo(p, M, c) == TakeUntilLoop(p, M, c, ModeOut(M, VecOut(<<>>)))

\* Parser::go::<M>(&self, inp), dispatched on the parser's type
Go(p, M, c) ==
    CASE p.op = "just" -> JustGo(p, M, c)
      [] p.op = "any" -> AnyGo(p, M, c)
      [] p.op = "end" -> EndGo(p, M, c)
      [] p.op = "empty" -> EmptyGo(p, M, c)
      [] p.op = "then" -> ThenGo(p, M, c)
      [] p.op = "ignore_then" -> IgnoreThenGo(p, M, c)
      [] p.op = "then_ignore" -> ThenIgnoreGo(p, M, c)
      [] p.op = "filter" -> FilterGo(p, M, c)
      [] p.op = "or_else" -> OrElseGo(p, M, c)
      [] p.op = "or" -> OrGo(p, M, c)
      [] p.op = "choice" -> ChoiceGo(p, M, c)
      [] p.op = "or_not" -> OrNotGo(p, M, c)
      [] p.op = "not" -> NotGo(p, M, c)
      [] p.op = "and_is" -> AndIsGo(p, M, c)
      [] p.op = "rewind" -> RewindGo(p, M, c)
      [] p.op = "to" -> ToGo(p, M, c)
      [] p.op = "ignored" -> IgnoredGo(p, M, c)
      [] p.op = "slice" -> SliceGo(p, M, c)
      [] p.op = "map_with_state" -> MapWithStateGo(p, M, c)
      [] p.op = "try_map" -> TryMapGo(p, M, c)
      [] p.op = "try_map_with_state" -> TryMapWithStateGo(p, M, c)
      [] p.op = "validate" -> ValidateGo(p, M, c)
      [] p.op = "recover_with" -> RecoverWithGo(p, M, c)
      [] p.op = "repeated" -> RepeatedGo(p, M, c)
      [] p.op = "repeated_exactly" -> RepeatedExactlyGo(p, M, c)
      [] p.op = "separated_by_exactly" -> SeparatedByExactlyGo(p, M, c)
      [] p.op = "configure" -> ConfigureGo(p, M, c)
      [] p.op = "then_with_ctx" -> ThenWithCtxGo(p, M, c)
      [] p.op = "with_ctx" -> WithCtxGo(p, M, c)
      [] p.op = "separated_by" -> SeparatedByGo(p, M, c)
      [] p.op = "take_until" -> TakeUntilGo(p, M, c)

---------------------------------------------------------------------------
(* The parsers and inputs the driver is given *)

Tokens == {"a", "b"}

SeqsUpTo(S, n) == UNION {[1..k -> S] : k \in 0..n}

Inputs == SeqsUpTo(Tokens, MaxLen)

Leaves == {Just(<<"a">>), Just(<<"b">>), Just(<<"a", "b">>), Any, End, Empty}

\* parsers that emit, touch the user state or recover
Effects ==
    {Validate(Any, "warn"),
     Then(Validate(Any, "warn"), Just(<<"b">>)),
     MapWithState(Any, "bump"),
     MapWithState(Any, "count"),
     Then(MapWithState(Any, "bump"), Just(<<"b">>)),
     TryMapWithState(Any, "zero"),
     RecoverWith(Just(<<"a", "b">>), Any)}

Base == Leaves \cup Effects

Seconds ==
    {Just(<<"a">>), Just(<<"a", "b">>), Any, End,
     TryMapWithState(Any, "zero"), Validate(Any, "warn")}

Branches == {Just(<<"a">>), Just(<<"b">>), Just(<<"a", "b">>), Then(Any, End)}

\* items a repetition can loop on: every success consumes a token
Items == Base \ {End, Empty}

\* parsers that rewind the cursor after a sub-parser consumed tokens
Lookaheads ==
    {Not(p) : p \in Leaves} \cup {OrNot(p) : p \in Leaves}
    \cup {Rewind(p) : p \in Leaves} \cup {AndIs(p, Any) : p \in Leaves}

\* a recovery after an error was emitted: the recovered parser and the
\* fallback may emit too
Recovering ==
    {Then(Validate(Any, "warn"), RecoverWith(p, f)) :
        p \in {Just(<<"a", "b">>), Then(Validate(Any, "warn"), Just(<<"b">>))},
        f \in {Any, Validate(Any, "warn")}}

Parsers ==
    Base
    \cup Recovering
    \cup {OrNot(p) : p \in Base} \cup {Rewind(p) : p \in Base}
    \cup {Not(p) : p \in Base} \cup {To(p, "v") : p \in Base}
    \cup {Ignored(p) : p \in Base} \cup {Slice(p) : p \in Base}
    \cup {TakeUntil(p) : p \in Base}
    \cup {TryMap(p, f) : p \in Base, f \in {"reject", "is_a"}}
    \cup {Repeated(p, 0, NoBound) : p \in Items}
    \cup {Then(p, q) : p \in Base, q \in Seconds}
    \cup {Or(p, q) : p \in Base, q \in Seconds}
    \cup {AndIs(p, q) : p \in Base, q \in Seconds}
    \cup {RecoverWith(p, q) : p \in Base, q \in Seconds}
    \cup {Choice(<<p, q, r>>) : p \in Branches, q \in Branches, r \in Branches}
    \cup {Then(Rewind(p), Rewind(p)) : p \in Base}
    \cup {Filter(p, f) : p \in Leaves, f \in {"is_a", "none"}}
    \cup {OrElse(p, f) : p \in Base, f \in {"default", "relabel"}}
    \cup {IgnoreThen(p, q) : p \in Leaves, q \in Seconds}
    \cup {ThenIgnore(p, q) : p \in Leaves, q \in Seconds}
    \cup {Then(l, q) : l \in Lookaheads, q \in {Any, End}}
    \cup {Repeated(Then(l, Any), 0, NoBound) : l \in Lookaheads}

\* the alternation scenario  just("foo").or(just("far"))  on  "fax"
Foo == Just(<<"f", "o", "o">>)
Far == Just(<<"f", "a", "r">>)
FooOrFar == Or(Foo, Far)
Fax == <<"f", "a", "x">>

\* the recovery scenario  p.recover_with(just('!').to(Dummy))  on  "?"
Bang == Just(<<"!">>)
Dummy == To(Bang, "Dummy")
FailOnQuestion == {Bang, End, Just(<<"?", "?">>), Just(<<"a">>)}
Recoveries == {RecoverWith(p, Dummy) : p \in FailOnQuestion}
Question == <<"?">>

\* the comment scenario  take_until(just("*/"))  on  "abc*/xyz"
StarSlash == Just(<<"*", "/">>)
Comment == <<"a", "b", "c", "*", "/", "x", "y", "z">>

\* the separated_by scenarios
SepTokens == {"-", ","}
SepInputs == SeqsUpTo(SepTokens, MaxSepLen)
Dash == Just(<<"-">>)
Comma == Just(<<",">>)

SepBys ==
    {SeparatedBy(Dash, Comma, n, m, l, t) :
        n \in 0..MaxAtLeast, m \in {NoBound} \cup 0..MaxAtMost,
        l \in BOOLEAN, t \in BOOLEAN}

SepParsers == SepBys \cup {Then(p, Comma) : p \in SepBys}

\* the repetition scenarios
RepItems == {Just(<<"a">>), Just(<<"a", "b">>), Any}

RepParsers ==
    {Repeated(p, n, m) : p \in RepItems, n \in 0..MaxCount,
                         m \in {NoBound} \cup 0..MaxCount}
    \cup {RepeatedExactly(p, n) : p \in RepItems, n \in 0..MaxCount}
    \cup {SeparatedByExactly(Just(<<"a">>), Just(<<"b">>), n, l, t) :
            n \in 0..MaxCount, l \in BOOLEAN, t \in BOOLEAN}

\* the context scenarios: repetitions configured from the context, as the
\* indentation of examples/indent.rs, and parsers that install a context
CtxInputs == SeqsUpTo(Tokens, MaxCtxLen)

Indent == Configure(Repeated(Just(<<"a">>), 0, NoBound), "exactly")

Configured ==
    {Configure(Repeated(Just(<<"a">>), n, m), f) :
        n \in {0, 2}, m \in {NoBound, 1},
        f \in {"exactly", "at_least", "at_most", "keep"}}

CtxBodies ==
    {Indent, Then(Indent, End), Then(Indent, Just(<<"b">>)),
     Then(ThenWithCtx(Any, Indent, "deeper"), Indent),
     ThenWithCtx(Any, Then(Indent, End), "deeper")}

CtxParsers ==
    Configured
    \cup {ThenWithCtx(Repeated(Just(<<"b">>), 0, NoBound), b, "count") : b \in CtxBodies}
    \cup {ThenWithCtx(Any, b, "deeper") : b \in CtxBodies}
    \cup {Then(ThenWithCtx(Any, b, "deeper"), Indent) : b \in CtxBodies}
    \cup {ThenWithCtx(Indent, b, "count") : b \in CtxBodies}
    \cup {WithCtx(b, 1) : b \in CtxBodies}

---------------------------------------------------------------------------
(* The driver: a parser is built, a cursor is made over the input, and the *)
(* parser is invoked once, in Emit mode (parse) or in Check mode (check).  *)

NoRes == [pending |-> TRUE]

NoCall == [op |-> "none"]

\* no Recursive handle has been declared
NoHandles ==
    /\ cells = <<>>
    /\ handles = <<>>
    /\ stack = <<>>
    /\ call = NoCall

InitWith(i, p, pos, state) ==
    /\ input = i
    /\ parser = p
    /\ cur = Cursor(pos, state)
    /\ entry = Cursor(pos, state)
    /\ mode = "none"
    /\ res = NoRes
    /\ NoHandles

Init ==
    \/ \E i \in Inputs, p \in Parsers :
         \E pos \in 0..Len(i), state \in 0..MaxState : InitWith(i, p, pos, state)
    \/ \E p \in {Foo, Far, FooOrFar} : InitWith(Fax, p, 0, 0)
    \/ \E i \in {Question, <<"!">>}, p \in Recoveries \cup FailOnQuestion :
         InitWith(i, p, 0, 0)
    \/ \E p \in {StarSlash, TakeUntil(StarSlash)}, pos \in 0..Len(Comment) :
         InitWith(Comment, p, pos, 0)

InitSep ==
    \E i \in SepInputs, p \in SepParsers : InitWith(i, p, 0, 0)

InitRep ==
    \E i \in Inputs, p \in RepParsers :
        \E pos \in 0..Len(i) : InitWith(i, p, pos, 0)

InitCtx ==
    \E i \in CtxInputs, p \in CtxParsers, ctx \in 0..MaxCtx :
        /\ input = i
        /\ parser = p
        /\ cur = CursorIn(0, 0, ctx)
        /\ entry = CursorIn(0, 0, ctx)
        /\ mode = "none"
        /\ res = NoRes
        /\ NoHandles

Invoke(M) ==
    /\ mode = "none"
    /\ mode' = M
    /\ entry' = cur
    /\ res' = Go(parser, M, cur)
    /\ cur' = res'.c
    /\ UNCHANGED <<input, parser>>
    /\ UNCHANGED rvars

Parse == Invoke("Emit")

Check == Invoke("Check")

Next == Parse \/ Check

Spec == Init /\ [][Next]_vars

SpecSep == InitSep /\ [][Next]_vars

SpecRep == InitRep /\ [][Next]_vars

SpecCtx == InitCtx /\ [][Next]_vars

Done == mode # "none"

---------------------------------------------------------------------------
(* The loops of repeated, repeated_exactly, separated_by,                  *)
(* separated_by_exactly and take_until, one iteration at a time: call      *)
(* holds the loop's locals between two iterations.                         *)

CountWidth == 3     \* bits of the usize counters count and i
MaxAlloc == 5       \* items a Vec holds before its allocation fails

\* the repeated items: two that consume a token when they succeed and two
\* that succeed without consuming
LoopItems == {Just(<<"a">>), Any, Empty, OrNot(Just(<<"a">>))}

LoopSeparators == {Just(<<"b">>), Empty}

LoopParsers ==
    {Repeated(p, n, m) : p \in LoopItems, n \in {0, 1}, m \in {NoBound, 2}}
    \cup {RepeatedExactly(p, n) : p \in LoopItems, n \in {1, 2}}
    \cup {SeparatedBy(p, s, n, m, l, t) :
            p \in {Just(<<"a">>), Empty}, s \in LoopSeparators,
            n \in {0, 1}, m \in {NoBound, 2}, l \in BOOLEAN, t \in BOOLEAN}
    \cup {SeparatedByExactly(p, s, 2, l, t) :
            p \in {Just(<<"a">>), Empty}, s \in LoopSeparators,
            l \in BOOLEAN, t \in BOOLEAN}
    \cup {TakeUntil(u) : u \in {Just(<<"b">>), Empty, End}}

InitLoop ==
    \E i \in Inputs, p \in LoopParsers : InitWith(i, p, 0, 0)

\* the locals of a loop between two iterations
Frame(count, output) == [op |-> "loop", count |-> count, output |-> output]

Looping == call.op = "loop"

\* the loop breaks or returns with r
Return(r) ==
    /\ res' = r
    /\ cur' = r.c
    /\ call' = NoCall

\* the loop goes round again. count += 1 has overflowed when count is
\* 2^CountWidth: a build with overflow checks panics, one without wraps.
Iterate(c, count, output) ==
    IF count = 2 ^ CountWidth
    THEN \/ Return(PPanic("attempt to add with overflow", c))
         \/ /\ cur' = c
            /\ call' = Frame(0, output)
            /\ res' = res
    ELSE /\ cur' = c
         /\ call' = Frame(count, output)
         /\ res' = res

\* the loop goes round again after a push on its Vec: a Vec that has grown
\* beyond MaxAlloc items could not be allocated
Grow(c, count, output) ==
    IF output # Chk /\ Len(output.vec) > MaxAlloc
    THEN Return(PPanic("memory allocation failed", c))
    ELSE Iterate(c, count, output)

\* go up to the loop: the set-up of each combinator, and steps 1 and 2 of
\* SeparatedBy::go
Enter(M) ==
    /\ mode = "none"
    /\ mode' = M
    /\ entry' = cur
    /\ CASE parser.op = "separated_by" ->
                LET output == ModeOut(M, VecOut(<<>>))
                    c1 == OptSeparator(parser, parser.allow_leading, cur)
                    before == Save(c1)
                    r == Go(parser.a, M, c1)
                IN  IF r.ok THEN Grow(r.c, 1, Push(M, output, r.out))
                    ELSE IF parser.at_least = 0
                    THEN Return(POk(output, RewindTo(r.c, before)))
                    ELSE Return(PErr(r.err, RewindTo(r.c, before)))
          [] parser.op = "separated_by_exactly" ->
                Iterate(OptSeparator(parser, parser.allow_leading, cur), 0, <<>>)
          [] parser.op = "repeated_exactly" -> Iterate(cur, 0, <<>>)
          [] OTHER -> Iterate(cur, 0, ModeOut(M, VecOut(<<>>)))
    /\ UNCHANGED <<input, parser, cells, handles, stack>>

LoopParse == Enter("Emit")

LoopCheck == Enter("Check")

\* one iteration of the loop of Repeated::go_cfg
RepeatedStep ==
    /\ Looping
    /\ parser.op = "repeated"
    /\ LET before == Save(cur)
           r == Go(parser.a, mode, cur)
           output == call.output
       IN  IF r.ok
           THEN IF parser.at_most # NoBound /\ call.count + 1 >= parser.at_most
                THEN Return(POk(Push(mode, output, r.out), r.c))
                ELSE Grow(r.c, call.count + 1, Push(mode, output, r.out))
           ELSE IF call.count >= parser.at_least
                THEN Return(POk(output, RewindTo(r.c, before)))
                ELSE Return(PErr(r.err, RewindTo(r.c, before)))
    /\ UNCHANGED <<input, parser, entry, mode, cells, handles, stack>>

\* one iteration of the loop of RepeatedExactly::go
RepeatedExactlyStep ==
    /\ Looping
    /\ parser.op = "repeated_exactly"
    /\ LET before == Save(cur)
           r == Go(parser.a, mode, cur)
           i == call.count
           output == call.output
       IN  IF r.ok
           THEN IF mode = "Emit" /\ i >= parser.N
                THEN Return(PPanic("index out of bounds", r.c))
                ELSE LET written == IF mode = "Emit"
                                    THEN WriteAt(output, parser.N, i, r.out)
                                    ELSE output
                     IN  IF i + 1 = parser.N
                         THEN Return(POk(ModeOut(mode, VecOut(written)), r.c))
                         ELSE Iterate(r.c, i + 1, written)
           ELSE Return(PErrDropping(r.err, RewindTo(r.c, before), Len(output),
                                    IF mode = "Emit" THEN i ELSE 0))
    /\ UNCHANGED <<input, parser, entry, mode, cells, handles, stack>>

\* one iteration of the loop of SeparatedBy::go (steps 3 and 4), with
\* steps 6 and 7 when it breaks
SeparatedByStep ==
    /\ Looping
    /\ parser.op = "separated_by"
    /\ LET before_separator == Save(cur)
           rs == Go(parser.separator, "Check", cur)
           r == Go(parser.a, mode, rs.c)
           count == call.count
           output == call.output
       IN  IF ~rs.ok
           THEN IF count < parser.at_least
                THEN Return(PErr(rs.err, RewindTo(rs.c, before_separator)))
                ELSE Return(SeparatedByEnd(parser, mode,
                                           RewindTo(rs.c, before_separator), output))
           ELSE IF r.ok
           THEN IF parser.at_most # NoBound /\ count + 1 >= parser.at_most
                THEN Return(SeparatedByEnd(parser, mode, r.c,
                                           Push(mode, output, r.out)))
                ELSE Grow(r.c, count + 1, Push(mode, output, r.out))
           ELSE IF count < parser.at_least
                THEN Return(PErr(r.err, RewindTo(r.c, before_separator)))
                ELSE Return(SeparatedByEnd(parser, mode,
                                           RewindTo(r.c, before_separator), output))
    /\ UNCHANGED <<input, parser, entry, mode, cells, handles, stack>>

\* one iteration of the loop of SeparatedByExactly::go
SeparatedByExactlyStep ==
    /\ Looping
    /\ parser.op = "separated_by_exactly"
    /\ LET before == Save(cur)
           r == Go(parser.a, mode, cur)
           i == call.count
           output == call.output
           written == WriteAt(output, parser.N, i, r.out)
           before_separator == Save(r.c)
           rs == Go(parser.separator, "Check", r.c)
       IN  IF ~r.ok
           THEN Return(PErrDropping(r.err, RewindTo(r.c, before), Len(output), i))
           ELSE IF i >= parser.N
           THEN Return(PPanic("index out of bounds", r.c))
           ELSE IF i + 1 = parser.N
           THEN Return(POk(ModeOut(mode, VecOut(written)),
                           OptSeparator(parser, parser.allow_trailing, r.c)))
           ELSE IF rs.ok
           THEN Iterate(rs.c, i + 1, written)
           ELSE Return(PErrDropping(rs.err, RewindTo(rs.c, before_separator),
                                    Len(written), i + 1))
    /\ UNCHANGED <<input, parser, entry, mode, cells, handles, stack>>

\* one iteration of the loop of TakeUntil::go
TakeUntilStep ==
    /\ Looping
    /\ parser.op = "take_until"
    /\ LET start == Save(cur)
           r == Go(parser.until, mode, cur)
           n == NextTok(RewindTo(r.c, start))
           output == call.output
       IN  IF r.ok THEN Return(POk(ModeOut(mode, PairOut(output, r.out)), r.c))
           ELSE IF n.tok # NoTok
           THEN Grow(n.c, call.count, Push(mode, output, TokOut(n.tok)))
           ELSE Return(PErr(r.err, n.c))
    /\ UNCHANGED <<input, parser, entry, mode, cells, handles, stack>>

NextLoop ==
    \/ LoopParse
    \/ LoopCheck
    \/ RepeatedStep
    \/ RepeatedExactlyStep
    \/ SeparatedByStep
    \/ SeparatedByExactlyStep
    \/ TakeUntilStep

\* an invocation that is running takes its next step
SpecLoop == InitLoop /\ [][NextLoop]_vars /\ WF_vars(NextLoop)

\* the invocation is over: it has returned Ok or Err, or panicked
LoopReturned == res # NoRes

----------------------------------------------------------------------------
(* Recursive handles (src/src/recursive.rs): a handle owns (Rc) or refers  *)
(* weakly (Weak) to a OnceCell holding the boxed parser.                   *)

NoParser == "<empty>"       \* Option::None in the cell

Definitions == {"p", "q"}   \* the parsers given to define

Handles == 1..Len(handles)

Live(h) == h \in Handles /\ handles[h].live

\* the handle's parse_inner is running: the handle is borrowed
Running(h) == \E k \in 1..Len(stack) : stack[k] = h

CellOf(h) == cells[handles[h].cell]

\* Recursive::cell: an owned handle clones its Rc; a weak handle upgrades,
\* which succeeds while the cell has an owner
Upgrades(h) == handles[h].kind = "Owned" \/ CellOf(h).strong > 0

Returns(op, h) == [op |-> op, h |-> h, outcome |-> "returned"]
Panics(op, h, msg) == [op |-> op, h |-> h, outcome |-> "panic", msg |-> msg]

\* OnceCell::new
NewCell == [content |-> NoParser, strong |-> 1, borrows |-> 0]

\* Recursive::declare
Declare ==
    /\ Len(cells) < MaxCells /\ Len(handles) < MaxHandles
    /\ cells' = Append(cells, NewCell)
    /\ handles' = Append(handles, [kind |-> "Owned", cell |-> Len(cells) + 1, live |-> TRUE])
    /\ call' = Returns("declare", Len(handles) + 1)
    /\ UNCHANGED stack
    /\ UNCHANGED pvars

\* Clone for Recursive
CloneHandle(h) ==
    /\ Live(h) /\ Len(handles) < MaxHandles
    /\ handles' = Append(handles, handles[h])
    /\ cells' = IF handles[h].kind = "Owned"
                THEN [cells EXCEPT ![handles[h].cell].strong = @ + 1]
                ELSE cells
    /\ call' = Returns("clone", Len(handles) + 1)
    /\ UNCHANGED stack
    /\ UNCHANGED pvars

\* a handle goes out of scope; dropping the last Rc drops the cell
DropHandle(h) ==
    /\ Live(h) /\ ~Running(h)
    /\ handles' = [handles EXCEPT ![h].live = FALSE]
    /\ cells' = IF handles[h].kind = "Owned"
                THEN [cells EXCEPT ![handles[h].cell].strong = @ - 1]
                ELSE cells
    /\ call' = Returns("drop", h)
    /\ UNCHANGED stack
    /\ UNCHANGED pvars

\* OnceCell::set: fails only when the cell is borrowed; stores otherwise
CellSet(c, x) ==
    IF cells[c].borrows > 0 THEN [ok |-> FALSE, cells |-> cells]
    ELSE [ok |-> TRUE, cells |-> [cells EXCEPT ![c].content = x]]

\* Recursive::define
Define(h, x) ==
    /\ Live(h) /\ ~Running(h)
    /\ IF ~Upgrades(h)
       THEN /\ call' = Panics("define", h, "Recursive parser used before being defined")
            /\ UNCHANGED cells
       ELSE LET set == CellSet(handles[h].cell, x)
            IN  /\ cells' = set.cells
                /\ call' = IF set.ok THEN Returns("define", h)
                           ELSE Panics("define", h, "Parser defined more than once")
    /\ UNCHANGED <<handles, stack>>
    /\ UNCHANGED pvars

\* recursive(f): declare, hand f a weak handle, define with what f built
RecursiveFn(x) ==
    /\ Len(cells) < MaxCells /\ Len(handles) + 2 <= MaxHandles
    /\ cells' = Append(cells, [NewCell EXCEPT !.content = x])
    /\ handles' = handles \o
            <<[kind |-> "Unowned", cell |-> Len(cells) + 1, live |-> TRUE],
              [kind |-> "Owned", cell |-> Len(cells) + 1, live |-> TRUE]>>
    /\ call' = Returns("recursive", Len(handles) + 2)
    /\ UNCHANGED stack
    /\ UNCHANGED pvars

\* Recursive::parse_inner entered without looking at the cell
ParseBeginUnchecked(h) ==
    /\ Live(h) /\ Len(stack) < MaxDepth
    /\ cells' = [cells EXCEPT ![handles[h].cell].strong = @ + 1,
                              ![handles[h].cell].borrows = @ + 1]
    /\ stack' = Append(stack, h)
    /\ call' = [op |-> "parse", h |-> h, outcome |-> "running"]
    /\ UNCHANGED handles
    /\ UNCHANGED pvars

\* Recursive::parse_inner up to the call of the stored parser: cell() and
\* OnceCell::get, whose Rc and Ref live until the stored parser returns
ParseBegin(h) ==
    /\ Live(h) /\ Len(stack) < MaxDepth
    /\ IF ~Upgrades(h)
       THEN /\ call' = Panics("parse", h, "Recursive parser used before being defined")
            /\ UNCHANGED <<cells, stack>>
       ELSE IF CellOf(h).content = NoParser
       THEN /\ call' = Panics("parse", h, "called Option::unwrap() on a None value")
            /\ UNCHANGED <<cells, stack>>
       ELSE /\ cells' = [cells EXCEPT ![handles[h].cell].strong = @ + 1,
                                      ![handles[h].cell].borrows = @ + 1]
            /\ stack' = Append(stack, h)
            /\ call' = [op |-> "parse", h |-> h, outcome |-> "running"]
    /\ UNCHANGED handles
    /\ UNCHANGED pvars

\* the stored parser returns Ok or Err to the innermost parse_inner
ParseEnd ==
    /\ stack # <<>>
    /\ LET h == stack[Len(stack)]
       IN  /\ cells' = [cells EXCEPT ![handles[h].cell].strong = @ - 1,
                                     ![handles[h].cell].borrows = @ - 1]
           /\ call' = Returns("parse", h)
    /\ stack' = SubSeq(stack, 1, Len(stack) - 1)
    /\ UNCHANGED handles
    /\ UNCHANGED pvars

InitRecursive == InitWith(<<>>, Empty, 0, 0)

NextRecursive ==
    \/ Declare
    \/ \E x \in Definitions : RecursiveFn(x)
    \/ \E h \in Handles : CloneHandle(h)
    \/ \E h \in Handles : DropHandle(h)
    \/ \E h \in Handles, x \in Definitions : Define(h, x)
    \/ \E h \in Handles : ParseBegin(h)
    \/ ParseEnd

SpecRecursive == InitRecursive /\ [][NextRecursive]_vars

---------------------------------------------------------------------------
(* What an invocation is observed to do *)

OtherMode(M) == IF M = "Emit" THEN "Check" ELSE "Emit"

\* the returned error of a result, as a list
Returned(r) == IF r.ok THEN <<>> ELSE <<r.err>>

\* success-or-failure, final cursor position, emitted and returned errors
Observed(r) ==
    [ok |-> r.ok, pos |-> r.c.pos, emitted |-> r.c.errors, returned |-> Returned(r)]

---------------------------------------------------------------------------
(* C1: running the built parser in Check mode and in Emit mode from the    *)
(* same cursor gives the same success-or-failure, the same final cursor    *)
(* position and the same emitted and returned errors.                      *)
C1_ModeEquivalence ==
    Done => Observed(Go(parser, OtherMode(mode), entry)) = Observed(res)

---------------------------------------------------------------------------
(* Helpers of the properties *)

\* the cursor c0 with the user state that the run r left behind: what a
\* rewind that also dropped r's emitted errors would hand to the next attempt
Discarding(c0, r) == [c0 EXCEPT !.state = r.c.state]

\* the cursor c0 with the user state and the emitted errors that r left
LeftBy(c0, r) == [c0 EXCEPT !.state = r.c.state, !.errors = r.c.errors]

\* the mode in which a combinator runs its first sub-parser
InnerMode(p, M) == IF p.op = "not" THEN "Check" ELSE M

\* the branches of an alternation, in order
BranchesOf(p) == IF p.op = "or" THEN <<p.a, p.b>> ELSE p.parsers

IsAlternation(p) == p.op \in {"or", "choice"}

RECURSIVE FirstAlone(_, _, _, _)
\* the first success among the branches after the i-th, each run alone
\* from the cursor c (the last failure when there is none)
FirstAlone(ps, i, M, c) ==
    LET r == Go(ps[i + 1], M, c)
    IN  IF r.ok \/ i + 1 = Len(ps) THEN r ELSE FirstAlone(ps, i + 1, M, c)

RECURSIVE FirstAfter(_, _, _, _)
\* as FirstAlone, each branch run from c's position in the user state and
\* with the emitted errors that the failed branches before it left
FirstAfter(ps, i, M, c) ==
    LET r == Go(ps[i + 1], M, c)
    IN  IF r.ok \/ i + 1 = Len(ps) THEN r ELSE FirstAfter(ps, i + 1, M, LeftBy(c, r))

RECURSIVE BranchErrors(_, _, _, _)
\* the errors of the branches after the i-th, in order, up to a success
BranchErrors(ps, i, M, c) ==
    IF i = Len(ps) THEN <<>>
    ELSE LET r == Go(ps[i + 1], M, c)
         IN  IF r.ok THEN <<>>
             ELSE <<r.err>> \o BranchErrors(ps, i + 1, M, LeftBy(c, r))

Furthest(errs) == CHOOSE n \in {errs[k].pos : k \in 1..Len(errs)} :
                      \A k \in 1..Len(errs) : errs[k].pos <= n

RECURSIVE MergeAll(_)
\* the errors of a non-empty list merged from left to right
MergeAll(errs) ==
    IF Len(errs) = 1 THEN errs[1].err
    ELSE Merge(MergeAll(SubSeq(errs, 1, Len(errs) - 1)), errs[Len(errs)].err)

AtPos(errs, n) == SelectSeq(errs, LAMBDA e : e.pos = n)

---------------------------------------------------------------------------
(* C2: when the first attempt of or, or_not, not or recover_with fails and *)
(* is rewound, the emitted errors of the parse are those present at entry  *)
(* followed by what the successful path emits: nothing that the failed     *)
(* attempt emitted.                                                        *)
SuccessfulPathErrors(p, M, c) ==
    LET ra == Go(p.a, InnerMode(p, M), c)
        c2 == Discarding(c, ra)
    IN  CASE p.op \in {"or_not", "not"} -> c.errors
          [] p.op = "or" ->
                LET rb == Go(p.b, M, c2) IN IF rb.ok THEN rb.c.errors ELSE c.errors
          [] p.op = "recover_with" ->
                LET rf == Go(p.fallback, M, c2)
                IN  IF rf.ok THEN Append(rf.c.errors, ra.err.err) ELSE c.errors

C2_OnlySuccessfulPathEmits ==
    (/\ Done
     /\ parser.op \in {"or", "or_not", "not", "recover_with"}
     /\ ~Go(parser.a, InnerMode(parser, mode), entry).ok)
    => res.c.errors = SuccessfulPathErrors(parser, mode, entry)

---------------------------------------------------------------------------
(* C3 as stated: in or(a, b) and choice, the first branch that succeeds    *)
(* when run alone from the entry cursor decides the output and the final   *)
(* cursor position of the alternation.                                     *)
C3_RewindNeutralAlone ==
    (Done /\ IsAlternation(parser)) =>
        LET r == FirstAlone(BranchesOf(parser), 0, mode, entry)
        IN  r.ok => res.ok /\ res.out = r.out /\ res.c.pos = r.c.pos

(* C3 as amended: after earlier branches failed, however many tokens they  *)
(* consumed, the next branch runs from exactly the entry position, and the *)
(* alternation succeeds with the output and final position of the first    *)
(* branch that succeeds from the entry position in the user state that the *)
(* failed branches left behind.                                            *)
C3_RewindNeutralPosition ==
    (Done /\ IsAlternation(parser)) =>
        LET r == FirstAfter(BranchesOf(parser), 0, mode, entry)
        IN  /\ res.ok = r.ok
            /\ r.ok => res.out = r.out /\ res.c.pos = r.c.pos

\* or(a, b) where a failed after consuming two tokens and changing the
\* user state, and b then succeeded
C3_Witness ==
    /\ Done /\ parser.op = "or" /\ res.ok /\ mode = "Emit"
    /\ LET ra == Go(parser.a, mode, entry)
       IN  ~ra.ok /\ ra.c.pos >= entry.pos + 2 /\ ra.c.state # entry.state

---------------------------------------------------------------------------
---------------------------------------------------------------------------
(* C5 as stated: just("foo").or(just("far")) on "fax" fails expecting      *)
(* {'o','a'} at position 2, having found 'x'.                              *)
C5_FaxExpectsOA ==
    (Done /\ input = Fax /\ parser = FooOrFar) =>
        /\ ~res.ok
        /\ res.err.err.expected = {"o", "a"}
        /\ res.err.pos = 2
        /\ res.err.err.found = "x"

(* C5 as amended: it fails with the error of just("far") alone: expected   *)
(* {'r'}, found 'x', at position 3; the error of just("foo"), raised at    *)
(* position 2 on 'a', is behind it and is not merged.                      *)
C5_FaxExpectsR ==
    (Done /\ input = Fax /\ parser = FooOrFar) =>
        /\ ~res.ok
        /\ res.err.err.expected = {"r"}
        /\ res.err.pos = 3
        /\ res.err.err.found = "x"
        /\ LET foo == Go(Foo, mode, entry)
           IN  foo.err.pos = 2 /\ foo.err.err.expected = {"o"} /\ foo.err.err.found = "a"

C5_Witness == Done /\ input = Fax /\ parser = FooOrFar /\ ~res.ok

---------------------------------------------------------------------------
(* C6: or_not(p) never fails; it yields Some(out) and leaves the cursor    *)
(* where p left it exactly when p succeeds from the entry cursor, and      *)
(* yields None with the cursor back at the entry position when p fails.    *)
C6_OrNotTotal ==
    (Done /\ parser.op = "or_not") =>
        LET r == Go(parser.a, mode, entry)
        IN  /\ res.ok
            /\ r.ok => /\ res.c.pos = r.c.pos
                       /\ mode = "Emit" => res.out = SomeOut(r.out)
            /\ ~r.ok => /\ res.c.pos = entry.pos
                        /\ mode = "Emit" => res.out = NoneOut

\* or_not(p) where p failed after consuming tokens
C6_Witness ==
    /\ Done /\ parser.op = "or_not" /\ mode = "Emit"
    /\ LET r == Go(parser.a, mode, entry) IN ~r.ok /\ r.c.pos > entry.pos
    /\ res.ok /\ res.out = NoneOut

---------------------------------------------------------------------------
IsTwice(p) == p.op = "then" /\ p.a.op = "rewind" /\ p.b = p.a

(* C7 as stated: rewind(p) leaves the cursor at the entry position whether *)
(* p succeeds or fails, and two runs of rewind(p) in a row give identical  *)
(* results.                                                                *)
C7_RewindAlwaysRestores ==
    /\ (Done /\ parser.op = "rewind") => res.c.pos = entry.pos
    /\ (Done /\ IsTwice(parser) /\ res.ok /\ mode = "Emit") =>
            res.out.fst = res.out.snd

(* C7 as amended: when p succeeds rewind(p) returns p's output with the    *)
(* cursor back at the entry position; when p fails it returns p's error    *)
(* with the cursor where p left it.  A second run right after a successful *)
(* one that left the user state unchanged succeeds with the same output    *)
(* and again leaves the cursor at the entry position.                      *)
C7_RewindRestoresOnSuccess ==
    /\ (Done /\ parser.op = "rewind") =>
            LET r == Go(parser.a, mode, entry)
            IN  /\ res.ok = r.ok
                /\ r.ok => res.out = r.out /\ res.c.pos = entry.pos
                /\ ~r.ok => res.err = r.err /\ res.c.pos = r.c.pos
    /\ (Done /\ IsTwice(parser)) =>
            LET r == Go(parser.a, mode, entry)
            IN  (r.ok /\ r.c.state = entry.state) =>
                    /\ res.ok
                    /\ res.c.pos = entry.pos
                    /\ mode = "Emit" => res.out = PairOut(r.out, r.out)

\* two runs of rewind(p) in a row where p consumed tokens and succeeded
C7_Witness ==
    /\ Done /\ IsTwice(parser) /\ res.ok /\ mode = "Emit"
    /\ res.c.pos = entry.pos
    /\ Go(parser.a.a, mode, entry).c.pos > entry.pos

---------------------------------------------------------------------------
(* Properties of separated_by, over the inputs made of '-' and ','         *)

RECURSIVE ItemsFrom(_, _, _)
\* the number of items of  item (sep item)*  that parse from the cursor c,
\* n of them already counted and a separator being due before the next
ItemsFrom(p, c, n) ==
    LET rs == IF n = 0 THEN POk(Chk, c) ELSE Go(p.separator, "Check", c)
    IN  IF ~rs.ok THEN n
        ELSE LET r == Go(p.a, "Check", rs.c)
             IN  IF r.ok THEN ItemsFrom(p, r.c, n + 1) ELSE n

\* where the items of separated_by start: after a leading separator when
\* one is allowed and present
ItemsStart(p, c) ==
    IF p.allow_leading /\ Go(p.separator, "Check", c).ok
    THEN Go(p.separator, "Check", c).c
    ELSE c

\* the number of separator-delimited items available at the cursor c
Available(p, c) == ItemsFrom(p, ItemsStart(p, c), 0)

\* the position after the first k items and the separators between them;
\* item and separator are one token each
AfterItems(p, c, k) == ItemsStart(p, c).pos + (IF k = 0 THEN 0 ELSE 2 * k - 1)

IsTok(pos, t) == pos <= Len(input) /\ input[pos] = t

(* C8: separated_by with at_least = n, whatever at_most and the flags: a   *)
(* success collected at least n items, and a failure means fewer than n    *)
(* separator-delimited items were available at the entry position.         *)
C8_SeparatedByAtLeast ==
    (Done /\ parser.op = "separated_by") =>
        /\ (res.ok /\ mode = "Emit") => Len(res.out.vec) >= parser.at_least
        /\ ~res.ok => Available(parser, entry) < parser.at_least

(* C9: when separated_by without allow_trailing succeeds and the k items   *)
(* it collected are followed by a separator that no item follows, the      *)
(* cursor is left before that separator; just(',') sequenced after it      *)
(* consumes the separator: "-,-,-," gives three items and then ','.        *)
C9_LeavesLastSeparator ==
    /\ (/\ Done /\ parser.op = "separated_by" /\ ~parser.allow_trailing
        /\ res.ok /\ mode = "Emit" /\ Len(res.out.vec) >= 1
        /\ LET after == AfterItems(parser, entry, Len(res.out.vec))
           IN  IsTok(after + 1, ",") /\ ~IsTok(after + 2, "-"))
       => /\ res.c.pos = AfterItems(parser, entry, Len(res.out.vec))
          /\ Go(Comma, "Check", res.c).ok
    /\ (/\ Done /\ mode = "Emit"
        /\ input = <<"-", ",", "-", ",", "-", ",">>
        /\ parser = Then(SeparatedBy(Dash, Comma, 0, NoBound, FALSE, FALSE), Comma))
       => /\ res.ok
          /\ res.out = PairOut(VecOut(<<JustOut(<<"-">>), JustOut(<<"-">>), JustOut(<<"-">>)>>),
                               JustOut(<<",">>))
          /\ res.c.pos = 6

\* separated_by stopped after three items on "-,-,-,": the last separator
\* was matched, no item followed, and the cursor is before that separator
C9_Witness ==
    /\ Done /\ mode = "Emit" /\ parser.op = "separated_by"
    /\ ~parser.allow_trailing /\ ~parser.allow_leading
    /\ input = <<"-", ",", "-", ",", "-", ",">>
    /\ res.ok /\ Len(res.out.vec) = 3 /\ res.c.pos = 5

(* C10: separated_by with at_most = m collects at most m items on success, *)
(* for every m >= 0, and exactly(m) collects exactly m.                    *)
C10_SeparatedByAtMost ==
    (/\ Done /\ parser.op = "separated_by" /\ parser.at_most # NoBound
     /\ res.ok /\ mode = "Emit")
    => /\ Len(res.out.vec) <= parser.at_most
       /\ parser.at_least = parser.at_most => Len(res.out.vec) = parser.at_most

---------------------------------------------------------------------------
(* Properties of repeated and repeated_exactly, over the repetition        *)
(* scenarios                                                               *)

(* C11: repeated(p) with at_least = a and at_most = m, a <= m, collects on *)
(* success a number of items k with a <= k <= m, for every m >= 0, and     *)
(* exactly(n) collects exactly n items.                                    *)
C11_RepeatedBounds ==
    (/\ Done /\ parser.op = "repeated" /\ mode = "Emit" /\ res.ok
     /\ parser.at_most # NoBound /\ parser.at_least <= parser.at_most)
    => /\ parser.at_least <= Len(res.out.vec)
       /\ Len(res.out.vec) <= parser.at_most

RECURSIVE SucceedsTimes(_, _, _)
\* whether p succeeds n times in a row from the cursor c
SucceedsTimes(p, n, c) ==
    IF n = 0 THEN TRUE
    ELSE LET r == Go(p, "Check", c)
         IN  r.ok /\ SucceedsTimes(p, n - 1, r.c)

(* C12: repeated_exactly::<N>(p), for every N >= 0, succeeds exactly when  *)
(* p succeeds N times in a row from the entry position, and a success      *)
(* yields exactly N items.                                                 *)
C12_RepeatedExactly ==
    (Done /\ parser.op = "repeated_exactly") =>
        /\ res.ok <=> SucceedsTimes(parser.a, parser.N, entry)
        /\ (res.ok /\ mode = "Emit") => Len(res.out.vec) = parser.N

---------------------------------------------------------------------------
(* C13: recover_with(p, fallback) returns p's result and emits nothing of  *)
(* its own when p succeeds; when p fails with e the fallback runs from the *)
(* entry position; when the fallback succeeds its output is returned and e *)
(* is emitted once, after whatever the fallback emitted; when the fallback *)
(* fails the returned error is e and e is not emitted.                     *)
C13_RecoverWith ==
    (Done /\ parser.op = "recover_with") =>
        LET r == Go(parser.a, mode, entry)
            rf == Go(parser.fallback, mode, LeftBy(entry, r))
        IN  /\ r.ok => res = r
            /\ (~r.ok /\ rf.ok) =>
                    /\ res.ok /\ res.out = rf.out /\ res.c.pos = rf.c.pos
                    /\ res.c.errors = Append(rf.c.errors, r.err.err)
            /\ (~r.ok /\ ~rf.ok) =>
                    /\ ~res.ok /\ res.err = r.err
                    /\ res.c.errors = rf.c.errors

\* p failed after consuming a token, the fallback succeeded from the entry
\* position, and p's error is the one emitted error
C13_Witness ==
    /\ Done /\ parser.op = "recover_with" /\ mode = "Emit"
    /\ LET r == Go(parser.a, mode, entry)
       IN  ~r.ok /\ r.err.pos > entry.pos + 1
    /\ res.ok /\ res.c.pos > entry.pos
    /\ Len(res.c.errors) = 1

(* C14 as stated: for p failing on "?", p.recover_with(just('!').to(Dummy)) *)
(* on "?" yields Dummy and emits exactly one error, the failure of p.      *)
C14_QuestionYieldsDummy ==
    (Done /\ input = Question /\ parser \in Recoveries /\ mode = "Emit") =>
        /\ res.ok /\ res.out = ToOut("Dummy")
        /\ res.c.errors = <<Go(parser.a, mode, entry).err.err>>

(* C14 as amended: on "?" the fallback just('!') fails as well, so the     *)
(* parse fails with the original error of p and emits nothing; on "!",     *)
(* when p fails there, it yields Dummy and emits the one error of p.       *)
C14_QuestionFails ==
    (Done /\ parser \in Recoveries /\ ~Go(parser.a, mode, entry).ok) =>
        LET e == Go(parser.a, mode, entry).err
        IN  /\ input = Question =>
                ~res.ok /\ res.err = e /\ res.c.errors = <<>>
            /\ input = <<"!">> =>
                /\ res.ok /\ res.c.errors = <<e.err>>
                /\ mode = "Emit" => res.out = ToOut("Dummy")

\* just("??").recover_with(just('!').to(Dummy)) on "?": both fail, on
\* different tokens
C14_Witness ==
    /\ Done /\ input = Question /\ mode = "Emit"
    /\ parser = RecoverWith(Just(<<"?", "?">>), Dummy)
    /\ ~res.ok /\ res.err.err.expected = {"?"}

---------------------------------------------------------------------------
\* the cursor c moved to position n
At(c, n) == [c EXCEPT !.pos = n]

RECURSIVE FirstMatch(_, _, _)
\* the cursor at the first position from c on at which t succeeds, each
\* attempt made in the user state and with the emitted errors the failed
\* attempts before it left; the cursor at the end of input when there is none
FirstMatch(t, M, c) ==
    LET r == Go(t, M, c)
    IN  IF r.ok \/ c.pos = Len(input) THEN c
        ELSE FirstMatch(t, M, At(LeftBy(c, r), c.pos + 1))

\* the tokens of the input from position from (exclusive of none) up to to
TokensBetween(from, to) == [k \in 1..(to - from) |-> TokOut(input[from + k])]

(* C15: when take_until(t) succeeds the container holds the tokens between *)
(* the entry position and the first position at which t succeeds, in       *)
(* order, the second output is t's output and the cursor is just past t's  *)
(* match; when t succeeds at no position up to the end of input it fails   *)
(* with the error of t's attempt at the end of input.  On "abc*/xyz" with  *)
(* t = just("*/"): container "abc", terminator "*/", cursor before "xyz".  *)
C15_TakeUntil ==
    /\ (Done /\ parser.op = "take_until") =>
            LET at == FirstMatch(parser.until, mode, entry)
                t == Go(parser.until, mode, at)
            IN  /\ res.ok = t.ok
                /\ res.c.pos = t.c.pos
                /\ (t.ok /\ mode = "Emit") =>
                      res.out = PairOut(VecOut(TokensBetween(entry.pos, at.pos)), t.out)
                /\ ~t.ok => at.pos = Len(input) /\ res.err = t.err
    /\ (/\ Done /\ parser = TakeUntil(StarSlash) /\ input = Comment
        /\ entry.pos = 0 /\ mode = "Emit")
       => /\ res.ok /\ res.c.pos = 5
          /\ res.out = PairOut(VecOut(<<TokOut("a"), TokOut("b"), TokOut("c")>>),
                               JustOut(<<"*", "/">>))

\* take_until(just("*/")) ran on "abc*/xyz" from the start
C15_Witness ==
    /\ Done /\ parser = TakeUntil(StarSlash) /\ input = Comment
    /\ entry.pos = 0 /\ mode = "Emit" /\ res.ok /\ res.c.pos = 5

---------------------------------------------------------------------------
(* Properties of Recursive handles, over the histories of declare,         *)
(* recursive, clone, drop, define and parse calls                          *)

(* C16: define on a handle whose cell already holds a parser panics and    *)
(* never replaces the stored parser: a cell's content, once set, does not  *)
(* change.                                                                 *)
C16_WriteOnce ==
    [][\A c \in 1..Len(cells) :
          cells[c].content # NoParser =>
              /\ cells'[c].content = cells[c].content
              /\ (call'.op = "define" /\ handles[call'.h].cell = c
                  /\ Upgrades(call'.h)) => call'.outcome = "panic"]_vars

\* a parse_inner call begins on handle h in this step
Begins(h) == call'.op = "parse" /\ call'.h = h /\ call'.outcome # "returned"

(* C17: a parse_inner call on a handle whose cell is empty, or on a weak   *)
(* handle whose cell has no owner left, panics and does not reach the      *)
(* stored parser; any other call reaches it.  The cell of a handle that    *)
(* recursive returned holds a parser, and a weak handle upgrades while an  *)
(* owned handle of its cell is alive.                                      *)
C17_ParseOnlyDefined ==
    /\ [][\A h \in Handles :
            Begins(h) =>
                /\ call'.outcome = "panic" <=>
                       (~Upgrades(h) \/ CellOf(h).content = NoParser)
                /\ call'.outcome = "panic" => stack' = stack /\ cells' = cells
                /\ call'.outcome # "panic" => stack' = Append(stack, h)]_vars
    /\ [](call.op = "recursive" =>
            /\ handles[call.h].kind = "Owned"
            /\ CellOf(call.h).content # NoParser)
    /\ [](\A w \in Handles, o \in Handles :
            (/\ Live(o) /\ handles[o].kind = "Owned"
             /\ handles[w].kind = "Unowned" /\ handles[w].cell = handles[o].cell)
            => Upgrades(w) /\ CellOf(w).content # NoParser)

\* a weak handle made by recursive was invoked after the last owner of its
\* cell was dropped, and the call panicked
C17_Witness ==
    /\ call.op = "parse" /\ call.outcome = "panic"
    /\ handles[call.h].kind = "Unowned"
    /\ CellOf(call.h).strong = 0
    /\ CellOf(call.h).content # NoParser

---------------------------------------------------------------------------
(* C18: try_map(p, f): when p succeeds over the span [start, end) and f    *)
(* returns Err(e), the parse fails with e located at start, the position   *)
(* at which p was entered; when f returns Ok(u) it succeeds with u.        *)
C18_TryMapAtStart ==
    (Done /\ parser.op = "try_map" /\ Go(parser.a, "Emit", entry).ok) =>
        LET r == Go(parser.a, "Emit", entry)
            m == TryMapper(parser.mapper, r.out, <<entry.pos, r.c.pos>>)
        IN  /\ m.ok => res.ok /\ (mode = "Emit" => res.out = m.out)
            /\ ~m.ok => ~res.ok /\ res.err = LocatedAt(entry.pos, m.err)

---------------------------------------------------------------------------
(* C19: not(p) succeeds with () exactly when p fails from the entry        *)
(* position and fails exactly when p succeeds, and in both outcomes the    *)
(* cursor is left at the entry position.                                   *)
C19_NotConsumesNothing ==
    (Done /\ parser.op = "not") =>
        LET r == Go(parser.a, "Check", entry)
        IN  /\ res.ok <=> ~r.ok
            /\ (res.ok /\ mode = "Emit") => res.out = Unit
            /\ res.c.pos = entry.pos

---------------------------------------------------------------------------
---------------------------------------------------------------------------
(* Properties of configure and then_with_ctx, over the context scenarios   *)

\* the bound in force: the one the configuration sets, the baseline's
\* otherwise
InForce(set, baseline) == IF set # NoBound THEN set ELSE baseline

(* C21: repeated run through configure(f) runs with the bounds f returns   *)
(* for the current context, a bound f leaves unset being the baseline's;   *)
(* with f = cfg.exactly(ctx) a success has consumed exactly ctx items, for *)
(* every ctx >= 0.                                                         *)
C21_ConfiguredBounds ==
    (Done /\ parser.op = "configure") =>
        LET cfg == ConfigFn(parser.cfg, DefaultRepeatedCfg, entry.ctx)
            bounded == Repeated(parser.a.a, InForce(cfg.at_least, parser.a.at_least),
                                InForce(cfg.at_most, parser.a.at_most))
        IN  /\ res = Go(bounded, mode, entry)
            /\ (parser.cfg = "exactly" /\ res.ok) =>
                    /\ res.c.pos = entry.pos + entry.ctx
                    /\ mode = "Emit" => Len(res.out.vec) = entry.ctx

\* the nesting scenario: an inner then_with_ctx, then a reader of the
\* context after it, on "baaa"
Nesting == Then(ThenWithCtx(Any, Indent, "deeper"), Indent)
Baaa == <<"b", "a", "a", "a">>

(* C27: then_with_ctx(a, b, make_ctx) runs a under the parent context and  *)
(* b under make_ctx(a's output, parent context); when it returns, b having *)
(* succeeded or failed, the cursor's context is the parent context again,  *)
(* so that what follows a nested then_with_ctx reads the outer context.    *)
C27_ContextScoped ==
    /\ (Done /\ parser.op = "then_with_ctx") =>
            LET ra == Go(parser.a, "Emit", entry)
                new == MakeCtx(parser.make_ctx, ra.out, entry.ctx)
                rb == Go(parser.b, mode, [ra.c EXCEPT !.ctx = new])
            IN  /\ res.c.ctx = entry.ctx
                /\ res.ok = (ra.ok /\ rb.ok)
                /\ res.ok => res.out = rb.out /\ res.c.pos = rb.c.pos
                /\ (ra.ok /\ ~rb.ok) => res.err = rb.err
    /\ (Done /\ parser = Nesting /\ input = Baaa /\ entry.ctx = 1) =>
            res.ok /\ res.c.pos = 4 /\ res.c.ctx = 1

\* on "baaa" under context 1 the inner then_with_ctx read two items under
\* context 2 and the reader after it read one item under context 1
C27_Witness ==
    /\ Done /\ parser = Nesting /\ input = Baaa /\ entry.ctx = 1
    /\ mode = "Emit" /\ res.ok
    /\ Len(res.out.fst.vec) = 2 /\ Len(res.out.snd.vec) = 1

\* the driver's result: the output of a successful parse, and the emitted
\* errors followed by the returned one
ParseResult(r) ==
    [output |-> IF r.ok THEN SomeOut(r.out) ELSE NoneOut,
     errors |-> r.c.errors \o Returned(r)]

\* what the emitting and the check-only entry points return from a cursor
ParseOf(p, c) == ParseResult(Go(p, "Emit", c))
CheckOf(p, c) == ParseResult(Go(p, "Check", c)).errors

(* C22: the driver's output is Some iff the top-level parser returned Ok,  *)
(* its error list is the emitted errors in emission order followed by the  *)
(* returned error if any, a None output comes with a non-empty list, and   *)
(* the check-only entry point returns the same error list as the emitting  *)
(* one.                                                                    *)
C22_DriverResult ==
    Done =>
        LET r == Go(parser, "Emit", entry)
            result == ParseOf(parser, entry)
        IN  /\ (result.output # NoneOut) = r.ok
            /\ result.errors = r.c.errors \o Returned(r)
            /\ result.output = NoneOut => result.errors # <<>>
            /\ CheckOf(parser, entry) = result.errors

----------------------------------------------------------------------------
(* C23: every invocation of repeated, repeated_exactly, separated_by,      *)
(* separated_by_exactly or take_until over a finite input comes to an end  *)
(* after finitely many invocations of its inner parsers, also when an      *)
(* inner parser succeeds without consuming a token.                        *)
C23_Terminates == <>LoopReturned

----------------------------------------------------------------------------
RECURSIVE Successes(_, _, _)
\* how many times in a row p succeeds from the cursor c in mode M
Successes(p, M, c) ==
    LET r == Go(p, M, c)
    IN  IF r.ok THEN 1 + Successes(p, M, r.c) ELSE 0

RECURSIVE AfterSuccesses(_, _, _, _)
\* the cursor after p has succeeded n times in a row from the cursor c
AfterSuccesses(p, M, c, n) ==
    IF n = 0 THEN c ELSE AfterSuccesses(p, M, Go(p, M, c).c, n - 1)

(* C24: repeated(p) stops at the first failure of p and rewinds it: a      *)
(* success leaves the cursor exactly after the last successful item (at    *)
(* the entry position when there is none), and when at_most is not reached *)
(* it succeeds exactly when the items that succeeded are at least          *)
(* at_least, having collected them all, and returns the failing attempt's  *)
(* error otherwise.                                                        *)
C24_RepeatedStopsAtFailure ==
    (Done /\ parser.op = "repeated") =>
        LET k == Successes(parser.a, mode, entry)
            last == AfterSuccesses(parser.a, mode, entry, k)
            unreached == parser.at_most = NoBound \/ k < parser.at_most
        IN  /\ res.ok => \E n \in 0..k :
                            /\ res.c = AfterSuccesses(parser.a, mode, entry, n)
                            /\ mode = "Emit" => Len(res.out.vec) = n
            /\ unreached =>
                    /\ res.ok = (k >= parser.at_least)
                    /\ res.c = last
                    /\ ~res.ok => res.err = Go(parser.a, mode, last).err

\* just("ab") repeated on "aba" from the start: one item, then an attempt
\* that fails after its first token and is rewound
C24_Witness ==
    /\ Done /\ parser.op = "repeated" /\ parser.a = Just(<<"a", "b">>)
    /\ parser.at_most = NoBound /\ parser.at_least <= 1
    /\ input = <<"a", "b", "a">> /\ entry.pos = 0
    /\ res.ok /\ res.c.pos = 2
    /\ Go(parser.a, mode, res.c).c.pos > 2

----------------------------------------------------------------------------
----------------------------------------------------------------------------
(* C26: and_is(a, b) succeeds exactly when a succeeds from the entry       *)
(* cursor and b, run after it in Check mode, succeeds from the entry       *)
(* position (in the user state that a left behind: a rewind restores the   *)
(* position only); a success returns a's output with the cursor at the end *)
(* of a's match, however much b consumed; a failure leaves the cursor at   *)
(* the entry position and returns the error of the parser that failed.     *)
C26_AndIsAfter ==
    (Done /\ parser.op = "and_is") =>
        LET ra == Go(parser.a, mode, entry)
            rb == Go(parser.b, "Check", LeftBy(entry, ra))
        IN  /\ res.ok = (ra.ok /\ rb.ok)
            /\ res.ok => res.out = ra.out /\ res.c.pos = ra.c.pos
            /\ ~res.ok => /\ res.c.pos = entry.pos
                          /\ res.err = IF ra.ok THEN rb.err ELSE ra.err

\* and_is(a, b) succeeded where a matched two tokens and b, from the entry
\* position, one
C26_Witness ==
    /\ Done /\ parser.op = "and_is" /\ res.ok
    /\ res.c.pos = entry.pos + 2
    /\ Go(parser.b, "Check", entry).c.pos = entry.pos + 1

----------------------------------------------------------------------------
RECURSIVE OrChain(_, _)
\* the left-nested chain p1.or(p2)...or(pn) of the first n of the parsers ps
OrChain(ps, n) == IF n = 1 THEN ps[1] ELSE Or(OrChain(ps, n - 1), ps[n])

----------------------------------------------------------------------------
\* the collectors into an array of N slots
IsExactly(p) == p.op \in {"repeated_exactly", "separated_by_exactly"}

(* C29: repeated_exactly::<N> and separated_by_exactly::<N> write only to  *)
(* slots i < N of their N-slot output, so that no write is out of bounds,  *)
(* and a failure drops exactly the slots that were written; for every      *)
(* N >= 0, N = 0 with an item that succeeds included.                      *)
C29_WritesInBounds ==
    (Done /\ IsExactly(parser)) =>
        /\ ~Panicked(res)
        /\ ~res.ok => res.dropped = res.written

----------------------------------------------------------------------------
\* recover_with at the top, or second in a sequence whose first parser
\* succeeded
IsRecovery ==
    \/ parser.op = "recover_with"
    \/ /\ parser.op = "then"
       /\ parser.b.op = "recover_with"
       /\ Go(parser.a, mode, entry).ok

\* that recover_with and the cursor it is called with
RecoveryOf ==
    IF parser.op = "recover_with" THEN [p |-> parser, c |-> entry]
    ELSE [p |-> parser.b, c |-> Go(parser.a, mode, entry).c]

\* the errors emitted between the cursor c0 and the later cursor c1
Emitted(c0, c1) == SubSeq(c1.errors, Len(c0.errors) + 1, Len(c1.errors))

====
